---- MODULE Spec2Model ----
(***************************************************************************)
(* The chat-session store and request handlers of LegalAI/app.py.          *)
(*                                                                         *)
(* The store is the two SQLite tables chat_sessions and chat_messages.     *)
(* Every request handler opens its own connection; each commit() is one    *)
(* atomic step, and the steps of concurrent handlers interleave.           *)
(* Strings are kept as runs of characters, and len(), slicing, + and       *)
(* strip() are computed on them as Python computes them.                   *)
(***************************************************************************)
EXTENDS Naturals, Sequences, FiniteSets

\* ------------------------------------------------------------------ bounds
MaxSessions   == 2    \* sessions ever created
MaxMessages   == 4    \* message rows ever inserted, one request at a time
ConcMessages  == 3    \* message rows ever inserted, requests overlapping
TitleSessions == 1    \* sessions ever created, in TitleSpec
TitleMessages == 3    \* message rows ever inserted, in TitleSpec
RaceSessions  == 1    \* sessions ever created, in RaceSpec
RaceMessages  == 4    \* message rows ever inserted, in RaceSpec
AnswersMessages == 6  \* message rows ever inserted, in AnswersSpec
MaxClock      == 1    \* CURRENT_TIMESTAMP takes the values 0..MaxClock

\* Request handlers that may be in flight at the same time.
Procs == {"h1", "h2"}

\* ------------------------------------------------------------------ text
\* A string is the sequence of its runs: [c |-> character, n |-> repetitions],
\* n >= 1, neighbouring runs of different characters.  Every string has exactly
\* one such form, so equality of forms is equality of strings.
TitleLimit == 50

\* c * n
Fill(c, n) == IF n = 0 THEN <<>> ELSE <<[c |-> c, n |-> n]>>

\* a + b
Cat(a, b) ==
    IF a = <<>> THEN b
    ELSE IF b = <<>> THEN a
    ELSE IF a[Len(a)].c = b[1].c
    THEN SubSeq(a, 1, Len(a) - 1)
            \o <<[c |-> b[1].c, n |-> a[Len(a)].n + b[1].n]>> \o Tail(b)
    ELSE a \o b

\* The string of a sequence of characters.
RECURSIVE Str(_)
Str(chars) ==
    IF chars = <<>> THEN <<>> ELSE Cat(Fill(Head(chars), 1), Str(Tail(chars)))

\* len(t)
RECURSIVE len(_)
len(t) == IF t = <<>> THEN 0 ELSE t[1].n + len(Tail(t))

\* t[:k]
RECURSIVE Slice(_, _)
Slice(t, k) ==
    IF k = 0 \/ t = <<>> THEN <<>>
    ELSE IF t[1].n >= k THEN <<[c |-> t[1].c, n |-> k]>>
    ELSE <<t[1]>> \o Slice(Tail(t), k - t[1].n)

Whitespace == {" ", "\t", "\n"}

RECURSIVE lstrip(_)
lstrip(t) ==
    IF t # <<>> /\ t[1].c \in Whitespace THEN lstrip(Tail(t)) ELSE t

RECURSIVE rstrip(_)
rstrip(t) ==
    IF t # <<>> /\ t[Len(t)].c \in Whitespace
    THEN rstrip(SubSeq(t, 1, Len(t) - 1))
    ELSE t

\* Mutant: the body is used as sent.
strip_nothing(t) == t

\* str.strip(): drop the leading and the trailing whitespace.
strip(t) == rstrip(lstrip(t))

Ellipsis == Fill(".", 3)

PlaceholderTitle == Str(<<"N","e","w"," ","L","e","g","a","l"," ",
                         "C","o","n","s","u","l","t","a","t","i","o","n">>)

\* Mutant: a title of exactly the limit is cut as well.
display_title_inclusive(title) ==
    IF len(title) >= TitleLimit
    THEN Cat(Slice(title, TitleLimit), Ellipsis)
    ELSE title

\* title[:50] + "..." if len(title) > 50 else title
display_title(title) ==
    IF len(title) > TitleLimit
    THEN Cat(Slice(title, TitleLimit), Ellipsis)
    ELSE title

\* Request bodies: the "message" field as the client sent it.
EmptyText == <<>>
BlankText == Str(<<" ", "\t">>)
BriefText == Str(<<"h", "i", " ">>)
ShortText == Cat(Fill(" ", 1), Cat(Fill("s", 25), Fill("\n", 1)))
ExactText == Fill("e", 50)
OverText  == Cat(Fill("o", 50), Fill("x", 1))
LongText  == Cat(Fill("l", 50), Fill("m", 30))

\* The bodies sent in every specification, and the bodies sent in TitleSpec.
Texts    == {EmptyText, BlankText, BriefText, LongText}
AllTexts == Texts \cup {ShortText, ExactText, OverText}

\* What the agent answers when it answers: str(response.content).
AgentReply == Str(<<"r">>)

\* ------------------------------------------------------------------ state
VARIABLES
    chat_sessions,    \* table chat_sessions: id -> [title, updated_at]
    chat_messages,    \* table chat_messages: set of rows
    sqlite_sequence,  \* AUTOINCREMENT counter of chat_messages
    assigned,         \* history: every message id ever assigned
    uuids,            \* number of uuid4() values drawn so far
    clock,            \* CURRENT_TIMESTAMP, in seconds
    pc,               \* handler -> position in its request
    req,              \* handler -> the request it serves
    chat_history,     \* handler -> local variable chat_history
    response,         \* the response the last step returned, if it returned one
    scraper           \* one call of LawbhoomiScraperTool.run: its locals

store == <<chat_sessions, chat_messages, sqlite_sequence, assigned>>
server == <<chat_sessions, chat_messages, sqlite_sequence, assigned, uuids,
            clock, pc, req, chat_history, response>>
vars  == <<chat_sessions, chat_messages, sqlite_sequence, assigned, uuids,
           clock, pc, req, chat_history, response, scraper>>

NoReq == [session_id |-> 0, message_id |-> 0, message |-> EmptyText]
NoResponse == [op |-> "none", status |-> 0, session_id |-> 0]

\* The tool has not been called.
NotCalled ==
    [pc |-> "idle", fetch |-> "response", status_code |-> 200,
     parses |-> TRUE, main_content |-> <<>>, body |-> <<>>,
     exc |-> "none", clean_text |-> <<>>, result |-> <<>>]

Init ==
    /\ scraper = NotCalled
    /\ chat_sessions = <<>>
    /\ chat_messages = {}
    /\ sqlite_sequence = 0
    /\ assigned = {}
    /\ uuids = 0
    /\ clock = 0
    /\ pc = [p \in Procs |-> "idle"]
    /\ req = [p \in Procs |-> NoReq]
    /\ chat_history = [p \in Procs |-> <<>>]
    /\ response = NoResponse

\* ------------------------------------------------------------------ store
\* All orders of the rows S that are ascending in the sort key (a function
\* from rows to numbers).  An ORDER BY fixes the order of rows only up to the
\* sort key: rows with equal keys may come back in either order.
Orderings(S, key) ==
    {h \in [1..Cardinality(S) -> S] :
        /\ \A i, j \in 1..Cardinality(S) : i # j => h[i] # h[j]
        /\ \A i, j \in 1..Cardinality(S) : i < j => key[h[i]] <= key[h[j]]}

\* Mutant: the id drawn last is drawn again.
uuid4_repeats == IF uuids = 0 THEN 1 ELSE uuids

\* str(uuid.uuid4()): an id never drawn before.
uuid4 == uuids + 1

\* Mutant: INTEGER PRIMARY KEY without AUTOINCREMENT, one more than the
\* largest id in the table.
NextRowId_of_table ==
    IF chat_messages = {} THEN 1
    ELSE (CHOOSE i \in {m.id : m \in chat_messages} :
            \A m \in chat_messages : m.id <= i) + 1

\* INTEGER PRIMARY KEY AUTOINCREMENT: one more than the largest id ever used.
NextRowId == sqlite_sequence + 1

\* Faulty variant: updated_at is left as it was.
touch_session_stale(session_id) == chat_sessions

\* UPDATE chat_sessions SET updated_at = CURRENT_TIMESTAMP WHERE id = ?
touch_session(session_id) ==
    [s \in DOMAIN chat_sessions |->
        IF s = session_id
        THEN [chat_sessions[s] EXCEPT !.updated_at = clock]
        ELSE chat_sessions[s]]

\* INSERT INTO chat_sessions (id, title) VALUES (?, "New Legal Consultation")
create_new_session(session_id) ==
    chat_sessions' =
        [s \in DOMAIN chat_sessions \cup {session_id} |->
            IF s = session_id
            THEN [title |-> PlaceholderTitle, updated_at |-> clock]
            ELSE chat_sessions[s]]

\* SELECT ... FROM chat_sessions ORDER BY updated_at DESC: the possible results.
get_chat_sessions ==
    LET sessions == {[id |-> s, title |-> chat_sessions[s].title,
                      updated_at |-> chat_sessions[s].updated_at] :
                            s \in DOMAIN chat_sessions}
    IN  Orderings(sessions, [r \in sessions |-> 0 - r.updated_at])

\* SELECT id, role, content, timestamp FROM chat_messages
\* WHERE session_id = ? ORDER BY timestamp ASC: the possible results.
get_chat_history(session_id) ==
    LET messages == {[id |-> m.id, role |-> m.role, content |-> m.content,
                      timestamp |-> m.timestamp] :
                        m \in {r \in chat_messages : r.session_id = session_id}}
    IN  Orderings(messages, [r \in messages |-> r.timestamp])

\* INSERT INTO chat_messages ...; UPDATE chat_sessions SET updated_at ...; commit
save_message(session_id, role, content) ==
    /\ chat_messages' = chat_messages \cup
            {[id |-> NextRowId, session_id |-> session_id, role |-> role,
              content |-> content, timestamp |-> clock]}
    /\ sqlite_sequence' = NextRowId
    /\ assigned' = assigned \cup {NextRowId}
    /\ chat_sessions' = touch_session(session_id)

\* UPDATE chat_sessions SET title = ?, updated_at = CURRENT_TIMESTAMP WHERE id = ?
update_session_title(session_id, title) ==
    chat_sessions' =
        [s \in DOMAIN chat_sessions |->
            IF s = session_id
            THEN [chat_sessions[s] EXCEPT !.title = display_title(title),
                                          !.updated_at = clock]
            ELSE chat_sessions[s]]

\* ------------------------------------------------------------------ handlers
\* Message rows the handlers in flight have still to insert.
PendingRows ==
    2 * Cardinality({p \in Procs : pc[p] \in {"send_title", "send_save"}})
    + Cardinality({p \in Procs : pc[p] \in
            {"send_agent", "send_reply", "edit_write", "edit_hist",
             "edit_agent", "edit_reply"}})

\* A bound of limit message rows leaves room for n more, after the rows the
\* handlers in flight will insert.
Room(n, limit) == sqlite_sequence + PendingRows + n <= limit

\* return jsonify(...), status: the handler ends its request.
Respond(p, op, status, session_id) ==
    /\ response' = [op |-> op, status |-> status, session_id |-> session_id]
    /\ pc' = [pc EXCEPT ![p] = "idle"]
    /\ req' = [req EXCEPT ![p] = NoReq]
    /\ chat_history' = [chat_history EXCEPT ![p] = <<>>]

\* A request arrives at an idle handler.
Begin(p, session_id, message_id, message, next) ==
    /\ req' = [req EXCEPT ![p] = [session_id |-> session_id,
                                  message_id |-> message_id,
                                  message |-> message]]
    /\ pc' = [pc EXCEPT ![p] = next]
    /\ response' = NoResponse

\* POST /api/new_session
new_session(p) ==
    /\ pc[p] = "idle"
    /\ uuids' = uuids + 1
    /\ LET session_id == uuid4
       IN  IF session_id \in DOMAIN chat_sessions
           THEN \* PRIMARY KEY violated: the INSERT raises, nothing is written
                /\ Respond(p, "new_session", 500, 0)
                /\ UNCHANGED chat_sessions
           ELSE /\ create_new_session(session_id)
                /\ Respond(p, "new_session", 200, session_id)
    /\ UNCHANGED <<chat_messages, sqlite_sequence, assigned, clock>>
    /\ UNCHANGED scraper

\* POST /api/chat/<session_id>/message, up to chat_history = get_chat_history()
send_message(p, session_id, raw) ==
    /\ pc[p] = "idle"
    /\ LET user_message == strip(raw)
       IN  IF user_message = <<>>
           THEN /\ Respond(p, "send_message", 400, 0)
           ELSE \E h \in get_chat_history(session_id) :
                     /\ chat_history' = [chat_history EXCEPT ![p] = h]
                     /\ Begin(p, session_id, 0, user_message,
                              IF Len(h) = 0 THEN "send_title" ELSE "send_save")
    /\ UNCHANGED <<store, uuids, clock>>
    /\ UNCHANGED scraper

\* if len(chat_history) == 0: update_session_title(session_id, user_message)
send_update_title(p) ==
    /\ pc[p] = "send_title"
    /\ update_session_title(req[p].session_id, req[p].message)
    /\ pc' = [pc EXCEPT ![p] = "send_save"]
    /\ response' = NoResponse
    /\ UNCHANGED <<chat_messages, sqlite_sequence, assigned, uuids, clock,
                   req, chat_history>>
    /\ UNCHANGED scraper

\* save_message(session_id, "user", user_message)
send_save_user(p) ==
    /\ pc[p] = "send_save"
    /\ save_message(req[p].session_id, "user", req[p].message)
    /\ pc' = [pc EXCEPT ![p] = "send_agent"]
    /\ response' = NoResponse
    /\ UNCHANGED <<uuids, clock, req, chat_history>>
    /\ UNCHANGED scraper

\* Mutant: what the agent produced before it raised is persisted.
send_agent_run_keeps_partial(p) ==
    /\ pc[p] = "send_agent"
    /\ \/ /\ pc' = [pc EXCEPT ![p] = "send_reply"]
          /\ response' = NoResponse
          /\ UNCHANGED <<store, req, chat_history>>
       \/ /\ save_message(req[p].session_id, "assistant", AgentReply)
          /\ Respond(p, "send_message", 500, 0)
    /\ UNCHANGED <<uuids, clock>>
    /\ UNCHANGED scraper

\* Faulty variant: the handler answers as soon as the agent has answered,
\* the reply not saved.
send_agent_run_answers_early(p) ==
    /\ pc[p] = "send_agent"
    /\ \/ Respond(p, "send_message", 200, 0)
       \/ Respond(p, "send_message", 500, 0)
    /\ UNCHANGED <<store, uuids, clock>>
    /\ UNCHANGED scraper

\* agent = create_legal_agent(chat_history); response = agent.run(user_message)
\* The agent answers, or raises and the handler's except clause answers 500.
send_agent_run(p) ==
    /\ pc[p] = "send_agent"
    /\ \/ /\ pc' = [pc EXCEPT ![p] = "send_reply"]
          /\ response' = NoResponse
          /\ UNCHANGED <<req, chat_history>>
       \/ Respond(p, "send_message", 500, 0)
    /\ UNCHANGED <<store, uuids, clock>>
    /\ UNCHANGED scraper

\* save_message(session_id, "assistant", ai_response); return success
send_save_reply(p) ==
    /\ pc[p] = "send_reply"
    /\ save_message(req[p].session_id, "assistant", AgentReply)
    /\ Respond(p, "send_message", 200, 0)
    /\ UNCHANGED <<uuids, clock>>
    /\ UNCHANGED scraper

\* Mutant: only the session row is deleted.
delete_session_keeps_messages(p, session_id) ==
    /\ pc[p] = "idle"
    /\ chat_sessions' = [s \in DOMAIN chat_sessions \ {session_id} |->
                            chat_sessions[s]]
    /\ Respond(p, "delete_session", 200, 0)
    /\ UNCHANGED <<chat_messages, sqlite_sequence, assigned, uuids, clock>>
    /\ UNCHANGED scraper

\* Faulty variant: DELETE FROM chat_messages without its WHERE clause.
delete_session_all_messages(p, session_id) ==
    /\ pc[p] = "idle"
    /\ chat_messages' = {}
    /\ chat_sessions' = [s \in DOMAIN chat_sessions \ {session_id} |->
                            chat_sessions[s]]
    /\ Respond(p, "delete_session", 200, 0)
    /\ UNCHANGED <<sqlite_sequence, assigned, uuids, clock>>
    /\ UNCHANGED scraper

\* DELETE /api/delete_session/<session_id>: both DELETEs, then one commit
delete_session(p, session_id) ==
    /\ pc[p] = "idle"
    /\ chat_messages' = {m \in chat_messages : m.session_id # session_id}
    /\ chat_sessions' = [s \in DOMAIN chat_sessions \ {session_id} |->
                            chat_sessions[s]]
    /\ Respond(p, "delete_session", 200, 0)
    /\ UNCHANGED <<sqlite_sequence, assigned, uuids, clock>>
    /\ UNCHANGED scraper

\* Mutant: the role of the selected row is not looked at.
edit_message_any_role(p, session_id, message_id, raw) ==
    /\ pc[p] = "idle"
    /\ LET new_message == strip(raw)
           result == {m \in chat_messages :
                        m.id = message_id /\ m.session_id = session_id}
       IN  IF new_message = <<>>
           THEN /\ Respond(p, "edit_message", 400, 0)
           ELSE IF result = {}
           THEN /\ Respond(p, "edit_message", 404, 0)
           ELSE /\ Begin(p, session_id, message_id, new_message, "edit_write")
                /\ UNCHANGED chat_history
    /\ UNCHANGED <<store, uuids, clock>>
    /\ UNCHANGED scraper

\* PUT /api/chat/<session_id>/edit/<message_id>, up to the SELECT role check
edit_message(p, session_id, message_id, raw) ==
    /\ pc[p] = "idle"
    /\ LET new_message == strip(raw)
           result == {m \in chat_messages :
                        m.id = message_id /\ m.session_id = session_id}
       IN  IF new_message = <<>>
           THEN /\ Respond(p, "edit_message", 400, 0)
           ELSE IF result = {} \/ \E m \in result : m.role # "user"
           THEN /\ Respond(p, "edit_message", 404, 0)
           ELSE /\ Begin(p, session_id, message_id, new_message, "edit_write")
                /\ UNCHANGED chat_history
    /\ UNCHANGED <<store, uuids, clock>>
    /\ UNCHANGED scraper

\* Mutant: the later rows are not deleted.
edit_commit_keeps_later(p) ==
    /\ pc[p] = "edit_write"
    /\ chat_messages' =
        {IF m.id = req[p].message_id /\ m.session_id = req[p].session_id
         THEN [m EXCEPT !.content = req[p].message, !.timestamp = clock]
         ELSE m : m \in chat_messages}
    /\ chat_sessions' = touch_session(req[p].session_id)
    /\ pc' = [pc EXCEPT ![p] = "edit_hist"]
    /\ response' = NoResponse
    /\ UNCHANGED <<sqlite_sequence, assigned, uuids, clock, req, chat_history>>
    /\ UNCHANGED scraper

\* Faulty variant: the DELETE takes the edited row as well (id >= message_id).
edit_commit_drops_edited(p) ==
    /\ pc[p] = "edit_write"
    /\ chat_messages' =
        {m \in chat_messages :
            ~(m.session_id = req[p].session_id /\ m.id >= req[p].message_id)}
    /\ chat_sessions' = touch_session(req[p].session_id)
    /\ pc' = [pc EXCEPT ![p] = "edit_hist"]
    /\ response' = NoResponse
    /\ UNCHANGED <<sqlite_sequence, assigned, uuids, clock, req, chat_history>>
    /\ UNCHANGED scraper

\* UPDATE content and timestamp; DELETE the session's rows with id > message_id;
\* UPDATE the session's updated_at; commit
edit_commit(p) ==
    /\ pc[p] = "edit_write"
    /\ chat_messages' =
        {IF m.id = req[p].message_id /\ m.session_id = req[p].session_id
         THEN [m EXCEPT !.content = req[p].message, !.timestamp = clock]
         ELSE m :
            m \in {r \in chat_messages :
                    ~(r.session_id = req[p].session_id
                        /\ r.id > req[p].message_id)}}
    /\ chat_sessions' = touch_session(req[p].session_id)
    /\ pc' = [pc EXCEPT ![p] = "edit_hist"]
    /\ response' = NoResponse
    /\ UNCHANGED <<sqlite_sequence, assigned, uuids, clock, req, chat_history>>
    /\ UNCHANGED scraper

\* chat_history = get_chat_history(session_id)
edit_get_history(p) ==
    /\ pc[p] = "edit_hist"
    /\ \E h \in get_chat_history(req[p].session_id) :
         chat_history' = [chat_history EXCEPT ![p] = h]
    /\ pc' = [pc EXCEPT ![p] = "edit_agent"]
    /\ response' = NoResponse
    /\ UNCHANGED <<store, uuids, clock, req>>
    /\ UNCHANGED scraper

\* agent = create_legal_agent(chat_history); response = agent.run(new_message)
edit_agent_run(p) ==
    /\ pc[p] = "edit_agent"
    /\ \/ /\ pc' = [pc EXCEPT ![p] = "edit_reply"]
          /\ response' = NoResponse
          /\ UNCHANGED <<req, chat_history>>
       \/ Respond(p, "edit_message", 500, 0)
    /\ UNCHANGED <<store, uuids, clock>>
    /\ UNCHANGED scraper

\* save_message(session_id, "assistant", ai_response); return success
edit_save_reply(p) ==
    /\ pc[p] = "edit_reply"
    /\ save_message(req[p].session_id, "assistant", AgentReply)
    /\ Respond(p, "edit_message", 200, 0)
    /\ UNCHANGED <<uuids, clock>>
    /\ UNCHANGED scraper

\* A second passes.
Tick ==
    /\ clock' = clock + 1
    /\ response' = NoResponse
    /\ UNCHANGED <<store, uuids, pc, req, chat_history>>
    /\ UNCHANGED scraper

\* Session ids a client can address: the ids handed out, and the id 0 that no
\* uuid4() call returns.
SessionIds == 0..uuids

\* Message ids a client can address: the ids assigned, and one never assigned.
MessageIds == 1..(sqlite_sequence + 1)

\* Requests overlap: every handler serves requests.
Next ==
    \/ \E p \in Procs : uuids < MaxSessions /\ new_session(p)
    \/ \E p \in Procs, s \in SessionIds, t \in Texts :
            Room(2, ConcMessages) /\ send_message(p, s, t)
    \/ \E p \in Procs : send_update_title(p)
    \/ \E p \in Procs : send_save_user(p)
    \/ \E p \in Procs : send_agent_run(p)
    \/ \E p \in Procs : send_save_reply(p)
    \/ \E p \in Procs, s \in SessionIds : delete_session(p, s)
    \/ \E p \in Procs, s \in SessionIds, m \in MessageIds, t \in Texts :
            Room(1, ConcMessages) /\ edit_message(p, s, m, t)
    \/ \E p \in Procs : edit_commit(p)
    \/ \E p \in Procs : edit_get_history(p)
    \/ \E p \in Procs : edit_agent_run(p)
    \/ \E p \in Procs : edit_save_reply(p)
    \/ clock < MaxClock /\ Tick

Spec == Init /\ [][Next]_vars

\* ------------------------------------------------------------------ one request at a time
\* One handler serves the requests, each to its response before the next.
Server == CHOOSE p \in Procs : TRUE

SeqNext ==
    \/ uuids < MaxSessions /\ new_session(Server)
    \/ \E s \in SessionIds, t \in Texts :
            Room(2, MaxMessages) /\ send_message(Server, s, t)
    \/ send_update_title(Server)
    \/ send_save_user(Server)
    \/ send_agent_run(Server)
    \/ send_save_reply(Server)
    \/ \E s \in SessionIds : delete_session(Server, s)
    \/ \E s \in SessionIds, m \in MessageIds, t \in Texts :
            Room(1, MaxMessages) /\ edit_message(Server, s, m, t)
    \/ edit_commit(Server)
    \/ edit_get_history(Server)
    \/ edit_agent_run(Server)
    \/ edit_save_reply(Server)
    \/ clock < MaxClock /\ Tick

SeqSpec == Init /\ [][SeqNext]_vars

\* The same, with message bodies of every length around the title limit.
TitleNext ==
    \/ uuids < TitleSessions /\ new_session(Server)
    \/ \E s \in SessionIds, t \in AllTexts :
            Room(2, TitleMessages) /\ send_message(Server, s, t)
    \/ send_update_title(Server)
    \/ send_save_user(Server)
    \/ send_agent_run(Server)
    \/ send_save_reply(Server)
    \/ \E s \in SessionIds : delete_session(Server, s)
    \/ \E s \in SessionIds, m \in MessageIds, t \in AllTexts :
            Room(1, TitleMessages) /\ edit_message(Server, s, m, t)
    \/ edit_commit(Server)
    \/ edit_get_history(Server)
    \/ edit_agent_run(Server)
    \/ edit_save_reply(Server)
    \/ clock < MaxClock /\ Tick

TitleSpec == Init /\ [][TitleNext]_vars

\* ------------------------------------------------------------------ the agent always answers
\* One request at a time, and no agent invocation raises.
AnswersNext ==
    \/ uuids < MaxSessions /\ new_session(Server)
    \/ \E s \in SessionIds, t \in Texts :
            Room(2, AnswersMessages) /\ send_message(Server, s, t)
    \/ send_update_title(Server)
    \/ send_save_user(Server)
    \/ send_agent_run(Server) /\ pc'[Server] = "send_reply"
    \/ send_save_reply(Server)
    \/ \E s \in SessionIds : delete_session(Server, s)
    \/ \E s \in SessionIds, m \in MessageIds, t \in Texts :
            Room(1, AnswersMessages) /\ edit_message(Server, s, m, t)
    \/ edit_commit(Server)
    \/ edit_get_history(Server)
    \/ edit_agent_run(Server) /\ pc'[Server] = "edit_reply"
    \/ edit_save_reply(Server)
    \/ clock < MaxClock /\ Tick

AnswersSpec == Init /\ [][AnswersNext]_vars

\* ------------------------------------------------------------------ two sends at once
\* Sessions are created, sent to and deleted, with room for two sends in
\* flight at once.
RaceNext ==
    \/ \E p \in Procs : uuids < RaceSessions /\ new_session(p)
    \/ \E p \in Procs, s \in SessionIds, t \in Texts :
            Room(2, RaceMessages) /\ send_message(p, s, t)
    \/ \E p \in Procs : send_update_title(p)
    \/ \E p \in Procs : send_save_user(p)
    \/ \E p \in Procs : send_agent_run(p)
    \/ \E p \in Procs : send_save_reply(p)
    \/ \E p \in Procs, s \in SessionIds : delete_session(p, s)
    \/ clock < MaxClock /\ Tick

RaceSpec == Init /\ [][RaceNext]_vars

\* ------------------------------------------------------------------ retrieval tool
\* LawbhoomiScraperTool.run(): fetch the fixed URL, parse, extract, normalise.
\* The fixed wording of each returned message is abbreviated to its first
\* characters; what run() computes from the page is kept.

\* if len(clean_text) < 50
MinContent == 50

\* Texts get_text() can give: none, short with runs of whitespace, one short
\* of the limit, at the limit, and longer with whitespace to squeeze.
PageTexts ==
    {EmptyText,
     Cat(Fill("a", 2), Cat(Fill(" ", 2), Cat(Fill("\n", 1), Fill("b", 3)))),
     Fill("c", 49),
     Fill("d", 50),
     Cat(Fill("f", 30), Cat(Fill(" ", 3), Fill("g", 30)))}

\* What requests.get() can do: raise, or give a response.
Fetches == {"ConnectionError", "Timeout", "response"}

\* response.status_code
StatusCodes == {200, 404, 503}

\* The exceptions of requests.exceptions.RequestException.
RequestException == {"ConnectionError", "Timeout", "HTTPError"}

\* ' '.join(t.split()) of a text without leading whitespace
RECURSIVE Squeeze(_)
Squeeze(t) ==
    IF t = <<>> THEN <<>>
    ELSE IF t[1].c \in Whitespace
    THEN Cat(Fill(" ", 1), Squeeze(lstrip(t)))
    ELSE Cat(<<t[1]>>, Squeeze(Tail(t)))

\* ' '.join(text_content.split())
clean(text_content) == Squeeze(strip(text_content))

\* f"Error: Could not access LawBhoomi URL {url}. Details: {e}"
ErrorAccess == Str(<<"E", "r", "r", "o", "r", ":", " ", "C">>)

\* f"Error: Failed to process content from URL {url}. Details: {e}"
ErrorProcess == Str(<<"E", "r", "r", "o", "r", ":", " ", "F">>)

\* f"Successfully accessed URL {url}, but extracted very little content.
\*   Extracted snippet: {clean_text[:50]}..."
LittleContent(clean_text) ==
    Cat(Str(<<"S", "u", "c", "c", ":", " ">>),
        Cat(Slice(clean_text, 50), Ellipsis))

\* f"--- START OF LAW BHOOMI NOTES CONTENT ---\n\n{clean_text}\n\n--- END ..."
NotesContent(clean_text) ==
    Cat(Fill("-", 3), Cat(Fill("\n", 2),
        Cat(clean_text, Cat(Fill("\n", 2), Fill("-", 3)))))

\* The tool is called: what the network and the page will do is drawn here.
ScraperInit ==
    /\ scraper \in
        {[NotCalled EXCEPT !.pc = "get", !.fetch = f, !.status_code = c,
                           !.parses = ok, !.main_content = m, !.body = b] :
            f \in Fetches, c \in StatusCodes, ok \in BOOLEAN,
            m \in {<<>>} \cup {<<t>> : t \in PageTexts},
            b \in {<<>>} \cup {<<t>> : t \in PageTexts}}
    /\ chat_sessions = <<>>
    /\ chat_messages = {}
    /\ sqlite_sequence = 0
    /\ assigned = {}
    /\ uuids = 0
    /\ clock = 0
    /\ pc = [p \in Procs |-> "idle"]
    /\ req = [p \in Procs |-> NoReq]
    /\ chat_history = [p \in Procs |-> <<>>]
    /\ response = NoResponse

\* An exception is raised inside the try block.
Raise(e) == scraper' = [scraper EXCEPT !.pc = "except", !.exc = e]

\* response = requests.get(url, headers=headers, timeout=15)
scraper_get ==
    /\ scraper.pc = "get"
    /\ IF scraper.fetch # "response"
       THEN Raise(scraper.fetch)
       ELSE scraper' = [scraper EXCEPT !.pc = "raise_for_status"]
    /\ UNCHANGED server

\* response.raise_for_status()
scraper_raise_for_status ==
    /\ scraper.pc = "raise_for_status"
    /\ IF scraper.status_code >= 400
       THEN Raise("HTTPError")
       ELSE scraper' = [scraper EXCEPT !.pc = "parse"]
    /\ UNCHANGED server

\* soup = BeautifulSoup(response.content, 'html.parser'); drop script and style
scraper_parse ==
    /\ scraper.pc = "parse"
    /\ IF ~scraper.parses
       THEN Raise("ParserError")
       ELSE scraper' = [scraper EXCEPT !.pc = "extract"]
    /\ UNCHANGED server

\* main_content = soup.find(...); text_content from it or from soup.body;
\* clean_text = ' '.join(text_content.split())
scraper_extract ==
    /\ scraper.pc = "extract"
    /\ IF scraper.main_content # <<>>
       THEN scraper' = [scraper EXCEPT
                !.pc = "return", !.clean_text = clean(scraper.main_content[1])]
       ELSE IF scraper.body = <<>>
       THEN \* soup.body is None: None.get_text raises
            Raise("AttributeError")
       ELSE scraper' = [scraper EXCEPT
                !.pc = "return", !.clean_text = clean(scraper.body[1])]
    /\ UNCHANGED server

\* the two return statements of the try block
scraper_return ==
    /\ scraper.pc = "return"
    /\ scraper' = [scraper EXCEPT
            !.pc = "returned",
            !.result = IF len(scraper.clean_text) < MinContent
                       THEN LittleContent(scraper.clean_text)
                       ELSE NotesContent(scraper.clean_text)]
    /\ UNCHANGED server

\* Faulty variant: only the requests exceptions are caught.
scraper_except_requests_only ==
    /\ scraper.pc = "except"
    /\ IF scraper.exc \in RequestException
       THEN scraper' = [scraper EXCEPT !.pc = "returned", !.result = ErrorAccess]
       ELSE scraper' = [scraper EXCEPT !.pc = "raised"]
    /\ UNCHANGED server

\* except requests.exceptions.RequestException / except Exception
scraper_except ==
    /\ scraper.pc = "except"
    /\ scraper' = [scraper EXCEPT
            !.pc = "returned",
            !.result = IF scraper.exc \in RequestException
                       THEN ErrorAccess
                       ELSE ErrorProcess]
    /\ UNCHANGED server

ScraperNext ==
    \/ scraper_get
    \/ scraper_raise_for_status
    \/ scraper_parse
    \/ scraper_extract
    \/ scraper_return
    \/ scraper_except

ScraperSpec == ScraperInit /\ [][ScraperNext]_vars

\* ------------------------------------------------------------------ properties
\* The rows of one session, and the ids of a set of rows.
Rows(session_id) == {m \in chat_messages : m.session_id = session_id}
Ids(rows) == {m.id : m \in rows}

\* The message body is empty or holds whitespace only.
IsBlank(t) == \A i \in 1..Len(t) : t[i].c \in Whitespace

\* The handler p takes a request and answers it in the same step, so that no
\* step of it runs the agent.
AnsweredAtOnce(p) == pc[p] = "idle" /\ pc'[p] = "idle"

\* The handler p answers at once with the given status and leaves the store
\* as it was.
Rejects(p, op, status) ==
    /\ response' = [op |-> op, status |-> status, session_id |-> 0]
    /\ AnsweredAtOnce(p)
    /\ UNCHANGED store

\* C1: a successful edit of the user message M leaves the session with the
\* messages before M unchanged, M with the new content, none of the messages
\* that followed M, and one new assistant reply as the last message.
C1_EditTruncatesAndReplies ==
    [][\A p \in Procs :
        LET s      == req[p].session_id
            M      == req[p].message_id
            before == Rows(s)
            after  == {m \in chat_messages' : m.session_id = s}
        IN
        /\ (pc[p] = "edit_write" /\ pc'[p] # "edit_write") =>
            /\ \E old \in before : old.id = M /\ old.role = "user"
            /\ {m \in after : m.id < M} = {m \in before : m.id < M}
            /\ {m \in after : m.id > M} = {}
            /\ \E e \in after :
                /\ {m \in after : m.id = M} = {e}
                /\ e.content = req[p].message
                /\ e.role = "user"
        /\ (pc[p] \in {"edit_hist", "edit_agent"} /\ pc'[p] = "edit_agent")
            => chat_messages' = chat_messages
        /\ (pc[p] = "edit_agent" /\ pc'[p] = "edit_reply")
            => chat_messages' = chat_messages
        /\ (pc[p] = "edit_reply" /\ pc'[p] # "edit_reply") =>
            /\ response' = [op |-> "edit_message", status |-> 200,
                            session_id |-> 0]
            /\ {m \in before : m.id > M} = {}
            /\ \E e \in before : e.id = M /\ e.content = req[p].message
            /\ \E r \in after :
                /\ r \notin before
                /\ after = before \cup {r}
                /\ r.role = "assistant"
                /\ \A m \in before : m.id < r.id]_vars

\* An edit has just succeeded in a session that holds an older message, the
\* edited user message and the new reply, the reply that used to follow the
\* edited message being gone.
C1_Witness ==
    /\ response = [op |-> "edit_message", status |-> 200, session_id |-> 0]
    /\ \E s \in SessionIds : \E a, b, c \in Rows(s) :
        /\ Rows(s) = {a, b, c}
        /\ a.id < b.id /\ b.id < c.id
        /\ b.role = "user" /\ c.role = "assistant"
        /\ c.id = sqlite_sequence
        /\ b.id + 1 < c.id
        /\ b.id + 1 \notin Ids(chat_messages)

\* C2: edit_message answers 404 whenever no message with the given id exists
\* under the given session or that message's role is not "user"; the store is
\* then unchanged and the agent has not been invoked.
C2_EditNotEditable ==
    \A p \in Procs, s \in SessionIds, m \in MessageIds, t \in Texts :
        (/\ pc[p] = "idle"
         /\ ~IsBlank(t)
         /\ ~\E r \in Rows(s) : r.id = m /\ r.role = "user")
        => /\ ENABLED edit_message(p, s, m, t)
           /\ ~ENABLED (edit_message(p, s, m, t)
                            /\ ~Rejects(p, "edit_message", 404))

\* An edit has just been answered 404 while an assistant message exists.
C2_Witness ==
    /\ response = [op |-> "edit_message", status |-> 404, session_id |-> 0]
    /\ \E m \in chat_messages : m.role = "assistant"

\* C3: every stored message's session_id is the id of an existing session.
C3_NoOrphanMessages ==
    \A m \in chat_messages : m.session_id \in DOMAIN chat_sessions

\* The session and its rows are gone after the step, the history read next is
\* empty, and the answer is a success.
Deleted(p, s) ==
    /\ s \notin DOMAIN chat_sessions'
    /\ {m \in chat_messages' : m.session_id = s} = {}
    /\ get_chat_history(s)' = {<<>>}
    /\ response' = [op |-> "delete_session", status |-> 200, session_id |-> 0]

\* C4: delete_session removes the session row and all of the session's
\* messages in one step, and a history read after it is empty.
C4_DeleteCascades ==
    \A p \in Procs, s \in SessionIds :
        pc[p] = "idle"
        => /\ ENABLED delete_session(p, s)
           /\ ~ENABLED (delete_session(p, s) /\ ~Deleted(p, s))

\* A delete has just been answered, the one session created is gone, and so
\* are all the rows inserted so far.
C4_Witness ==
    /\ response = [op |-> "delete_session", status |-> 200, session_id |-> 0]
    /\ uuids = 1
    /\ chat_sessions = <<>>
    /\ chat_messages = {}
    /\ sqlite_sequence >= 2

\* C5: get_chat_history returns the session's messages in non-decreasing
\* timestamp order, and that order is the order of their ids.
C5_HistoryInIdOrder ==
    \A s \in SessionIds : \A h \in get_chat_history(s) :
        \A i, j \in 1..Len(h) :
            i < j => h[i].timestamp <= h[j].timestamp /\ h[i].id < h[j].id

\* C6: a newly inserted row gets an id greater than every id assigned before,
\* and no two rows share an id.
C6_IdsNeverReused ==
    [][/\ \A m \in chat_messages' :
            m.id \notin Ids(chat_messages) => \A a \in assigned : a < m.id
       /\ \A m, n \in chat_messages' : m.id = n.id => m = n]_vars

\* The row inserted last follows an id that is no longer in the table.
C6_Witness ==
    \E m \in chat_messages :
        /\ m.id = sqlite_sequence
        /\ m.id - 1 \in assigned
        /\ m.id - 1 \notin Ids(chat_messages)

\* C7: a send_message on a session with no history sets the title to the
\* message if it has at most 50 characters, to its first 50 characters and
\* "..." otherwise; no title is ever longer than 53 characters.
C7_TitleFromFirstMessage ==
    /\ [](\A s \in DOMAIN chat_sessions : len(chat_sessions[s].title) <= 53)
    /\ [][\A p \in Procs :
            /\ (pc[p] = "idle" /\ pc'[p] \in {"send_title", "send_save"})
                => (pc'[p] = "send_title" <=> Rows(req'[p].session_id) = {})
            /\ (pc[p] = "send_title" /\ pc'[p] # "send_title"
                    /\ req[p].session_id \in DOMAIN chat_sessions)
                => chat_sessions'[req[p].session_id].title =
                        IF len(req[p].message) <= 50
                        THEN req[p].message
                        ELSE Cat(Slice(req[p].message, 50), Fill(".", 3))]_vars

\* A session is titled with the first 50 characters of its 80-character first
\* message and "...".
C7_Witness ==
    \E s \in DOMAIN chat_sessions :
        /\ len(chat_sessions[s].title) = 53
        /\ chat_sessions[s].title = Cat(Fill("l", 50), Fill(".", 3))
        /\ \E m \in Rows(s) : m.content = LongText /\ m.role = "user"

\* C8: send_message and edit_message with an empty or whitespace-only message
\* answer 400 and leave the store unchanged, the agent not invoked.
C8_BlankRejected ==
    \A p \in Procs, s \in SessionIds, t \in AllTexts :
        (pc[p] = "idle" /\ IsBlank(t))
        => /\ ENABLED send_message(p, s, t)
           /\ ~ENABLED (send_message(p, s, t)
                            /\ ~Rejects(p, "send_message", 400))
           /\ \A m \in MessageIds :
                /\ ENABLED edit_message(p, s, m, t)
                /\ ~ENABLED (edit_message(p, s, m, t)
                                /\ ~Rejects(p, "edit_message", 400))

\* An edit has just been answered 400 while a user message exists.
C8_Witness ==
    /\ response = [op |-> "edit_message", status |-> 400, session_id |-> 0]
    /\ \E m \in chat_messages : m.role = "user"

\* C9: when the agent raises, the request ends with a 500 response and the
\* store is as it was before the invocation: no assistant message is added.
C9_AgentFailureLeavesStore ==
    [][\A p \in Procs :
        /\ (pc[p] = "send_save" /\ pc'[p] = "send_agent")
            => \E u \in chat_messages' :
                /\ chat_messages' = chat_messages \cup {u}
                /\ u.id \notin Ids(chat_messages)
                /\ u.session_id = req[p].session_id
                /\ u.role = "user" /\ u.content = req[p].message
        /\ (pc[p] = "send_agent" /\ pc'[p] = "idle")
            => /\ response' = [op |-> "send_message", status |-> 500,
                               session_id |-> 0]
               /\ UNCHANGED store
        /\ (pc[p] = "edit_agent" /\ pc'[p] = "idle")
            => /\ response' = [op |-> "edit_message", status |-> 500,
                               session_id |-> 0]
               /\ UNCHANGED store]_vars

\* A send has just been answered 500 and the row inserted last is its user
\* message.
C9_Witness ==
    /\ response = [op |-> "send_message", status |-> 500, session_id |-> 0]
    /\ \E m \in chat_messages : m.id = sqlite_sequence /\ m.role = "user"

\* The step inserts one session under the id it returns, an id no session
\* had, with the placeholder title and no messages; the other sessions and
\* the messages are as before, and the session list read next shows it.
Created(p) ==
    LET id == response'.session_id
    IN  /\ response' = [op |-> "new_session", status |-> 200, session_id |-> id]
        /\ id \notin DOMAIN chat_sessions
        /\ DOMAIN chat_sessions' = DOMAIN chat_sessions \cup {id}
        /\ chat_sessions'[id].title = PlaceholderTitle
        /\ \A s \in DOMAIN chat_sessions : chat_sessions'[s] = chat_sessions[s]
        /\ chat_messages' = chat_messages
        /\ {m \in chat_messages' : m.session_id = id} = {}
        /\ \A l \in get_chat_sessions' :
            \E i \in 1..Len(l) :
                l[i].id = id /\ l[i].title = PlaceholderTitle

\* C10: new_session returns an id no existing session has and inserts exactly
\* that session, titled "New Legal Consultation" and without messages.
C10_NewSessionFresh ==
    \A p \in Procs :
        pc[p] = "idle"
        => /\ ENABLED new_session(p)
           /\ ~ENABLED (new_session(p) /\ ~Created(p))

\* A second session has just been created beside one that holds messages.
C10_Witness ==
    /\ response = [op |-> "new_session", status |-> 200, session_id |-> 2]
    /\ 1 \in DOMAIN chat_sessions /\ 2 \in DOMAIN chat_sessions
    /\ chat_sessions[2].title = PlaceholderTitle
    /\ Rows(1) # {}
    /\ Rows(2) = {}

\* s begins with prefix.
StartsWith(s, prefix) == Slice(s, len(prefix)) = prefix

\* C12: run() never raises; in every outcome of the fetch and parse steps it
\* returns a non-empty string, and when the fetch fails or the status is an
\* error status the string begins with "Error:".
C12_ScraperNeverRaises ==
    /\ scraper.pc # "raised"
    /\ scraper.pc = "returned" =>
        /\ len(scraper.result) > 0
        /\ (scraper.fetch # "response" \/ scraper.status_code >= 400)
            => StartsWith(scraper.result,
                          Str(<<"E", "r", "r", "o", "r", ":">>))

\* run() has returned an "Error:" string for a page that has no body.
C12_Witness ==
    /\ scraper.pc = "returned"
    /\ scraper.exc = "AttributeError"
    /\ scraper.result = ErrorProcess

\* C11: every message insert, title update and edit commit sets the session's
\* updated_at to the current time, no updated_at ever decreases, and every
\* result of listSessions holds all sessions in descending updated_at order.
C11_UpdatedAtBumped ==
    /\ [](\A l \in get_chat_sessions :
            /\ Len(l) = Cardinality(DOMAIN chat_sessions)
            /\ {l[i].id : i \in 1..Len(l)} = DOMAIN chat_sessions
            /\ \A i, j \in 1..Len(l) :
                i < j => l[i].updated_at >= l[j].updated_at)
    /\ [][/\ \A s \in DOMAIN chat_sessions \cap DOMAIN chat_sessions' :
                chat_sessions'[s].updated_at >= chat_sessions[s].updated_at
          /\ \A p \in Procs :
                (/\ pc[p] \in {"send_title", "send_save", "send_reply",
                               "edit_write", "edit_reply"}
                 /\ pc'[p] # pc[p]
                 /\ req[p].session_id \in DOMAIN chat_sessions)
                => chat_sessions'[req[p].session_id].updated_at = clock]_vars

\* A session written to in a later second than another one is listed first.
C11_Witness ==
    \E a, b \in DOMAIN chat_sessions :
        /\ chat_sessions[a].updated_at > chat_sessions[b].updated_at
        /\ \E m \in Rows(a) : m.timestamp = chat_sessions[a].updated_at
        /\ \A l \in get_chat_sessions : l[1].id = a /\ l[2].id = b

\* C13: the history edit_message passes to the agent ends at the edited
\* message M, carrying the new content.
C13_EditHistoryEndsAtM ==
    \A p \in Procs :
        pc[p] = "edit_agent"
        => /\ chat_history[p] # <<>>
           /\ chat_history[p][Len(chat_history[p])].id = req[p].message_id
           /\ chat_history[p][Len(chat_history[p])].content = req[p].message

\* C14: once a session has a message, no send_message changes its title.
C14_TitleSetOnce ==
    [][\A p \in Procs :
        (/\ pc[p] = "send_title" /\ pc'[p] = "send_save"
         /\ req[p].session_id \in DOMAIN chat_sessions
         /\ Rows(req[p].session_id) # {})
        => chat_sessions'[req[p].session_id].title =
                chat_sessions[req[p].session_id].title]_vars

\* C16: when an edit commits its write, message M exists under the session
\* with role "user", and after the commit it is there with the new content.
C16_EditWritesCheckedMessage ==
    [][\A p \in Procs :
        (pc[p] = "edit_write" /\ pc'[p] = "edit_hist")
        => /\ \E old \in Rows(req[p].session_id) :
                old.id = req[p].message_id /\ old.role = "user"
           /\ \E e \in chat_messages' :
                /\ e.session_id = req[p].session_id
                /\ e.id = req[p].message_id
                /\ e.content = req[p].message]_vars

\* C15 as stated: when a send retitles the session, the user message of that
\* request has been persisted before.
C15_UserSavedBeforeRetitle ==
    [][\A p \in Procs :
        (pc[p] = "send_title" /\ pc'[p] = "send_save")
        => \E m \in Rows(req[p].session_id) :
                m.role = "user" /\ m.content = req[p].message]_vars

\* The step of handler p inserts exactly the row u.
Inserts(u) ==
    /\ u \notin chat_messages
    /\ chat_messages' = chat_messages \cup {u}
    /\ u.id \in assigned'

\* C15, amended: a send_message request loads the history, retitles the
\* session if that history was empty, then persists the user message, then
\* invokes the agent, then persists the reply under a greater id, then
\* responds; a success response comes only from the step that persists the
\* reply.
C15_SendStepOrder ==
    [][/\ assigned \subseteq assigned'
       /\ (response'.op = "send_message" /\ response'.status = 200)
            => \E p \in Procs : pc[p] = "send_reply" /\ pc'[p] = "idle"
       /\ \A p \in Procs :
            /\ (pc[p] = "idle" /\ pc'[p] \in {"send_title", "send_save"})
                => /\ chat_history'[p] \in get_chat_history(req'[p].session_id)
                   /\ pc'[p] = "send_title" <=> chat_history'[p] = <<>>
                   /\ UNCHANGED store
            /\ (pc[p] = "send_title" /\ pc'[p] # "send_title")
                => /\ pc'[p] = "send_save"
                   /\ chat_messages' = chat_messages
                   /\ req[p].session_id \in DOMAIN chat_sessions
                        => chat_sessions'[req[p].session_id].title =
                                display_title(req[p].message)
            /\ (pc[p] = "send_save" /\ pc'[p] # "send_save")
                => /\ pc'[p] = "send_agent"
                   /\ \E u \in chat_messages' :
                        /\ Inserts(u)
                        /\ u.session_id = req[p].session_id
                        /\ u.role = "user" /\ u.content = req[p].message
            /\ (pc[p] = "send_agent" /\ pc'[p] # "send_agent")
                => /\ pc'[p] \in {"send_reply", "idle"}
                   /\ UNCHANGED store
            /\ (pc[p] = "send_reply" /\ pc'[p] # "send_reply")
                => /\ pc'[p] = "idle"
                   /\ response' = [op |-> "send_message", status |-> 200,
                                   session_id |-> 0]
                   /\ \E r \in chat_messages' :
                        /\ Inserts(r)
                        /\ r.session_id = req[p].session_id
                        /\ r.role = "assistant"
                        /\ \A a \in assigned : a < r.id]_vars

\* A send has just succeeded on a session it titled: the session holds its
\* user message and, under a greater id, the reply inserted last.
C15_Witness ==
    /\ response = [op |-> "send_message", status |-> 200, session_id |-> 0]
    /\ \E s \in DOMAIN chat_sessions : \E u, r \in Rows(s) :
        /\ u.role = "user" /\ r.role = "assistant"
        /\ u.id < r.id
        /\ r.id = sqlite_sequence
        /\ chat_sessions[s].title = display_title(u.content)

\* The roles of the rows alternate in id order, from "user" to "assistant".
RECURSIVE Alternates(_, _)
Alternates(rows, role) ==
    IF rows = {} THEN role = "user"
    ELSE LET first == CHOOSE m \in rows : \A n \in rows : m.id <= n.id
         IN  /\ first.role = role
             /\ Alternates(rows \ {first},
                           IF role = "user" THEN "assistant" ELSE "user")

\* C17: with one request served at a time and every agent invocation
\* answering, between requests the messages of every existing session, in
\* insertion order, alternate "user", "assistant", ..., ending with
\* "assistant".
C17_RolesAlternate ==
    pc[Server] = "idle"
    => \A s \in DOMAIN chat_sessions : Alternates(Rows(s), "user")

\* An edit has just succeeded on the second user message of a session of two
\* turns.
C17_Witness ==
    /\ response = [op |-> "edit_message", status |-> 200, session_id |-> 0]
    /\ \E s \in DOMAIN chat_sessions :
        /\ Cardinality(Rows(s)) = 4
        /\ Alternates(Rows(s), "user")
        /\ sqlite_sequence \in Ids(Rows(s))
        /\ sqlite_sequence - 1 \notin Ids(chat_messages)

\* The step leaves every session other than S, and every message of another
\* session, as it was.
OthersUnchanged(S) ==
    /\ {m \in chat_messages' : m.session_id # S}
            = {m \in chat_messages : m.session_id # S}
    /\ DOMAIN chat_sessions' \ {S} = DOMAIN chat_sessions \ {S}
    /\ \A s \in DOMAIN chat_sessions \ {S} :
            chat_sessions'[s] = chat_sessions[s]

\* C18: every step of a send_message, edit_message or delete_session request
\* addressed to session S leaves the other sessions and their messages
\* unchanged, and an edit goes past its check only for a message of S.
C18_OtherSessionsUnchanged ==
    [][/\ \A p \in Procs, s \in SessionIds :
            delete_session(p, s) => OthersUnchanged(s)
       /\ (pc' = pc /\ response'.op \in {"send_message", "edit_message"})
            => UNCHANGED store
       /\ \A p \in Procs :
            /\ (pc[p] = "idle" /\ pc'[p] # "idle")
                => /\ UNCHANGED store
                   /\ pc'[p] = "edit_write"
                        => \E m \in Rows(req'[p].session_id) :
                                m.id = req'[p].message_id
            /\ (pc[p] # "idle" /\ pc'[p] # pc[p])
                => OthersUnchanged(req[p].session_id)]_vars

\* A delete has just removed the first session and its messages while the
\* second session keeps its title and its messages.
C18_Witness ==
    /\ response = [op |-> "delete_session", status |-> 200, session_id |-> 0]
    /\ DOMAIN chat_sessions = {2}
    /\ chat_sessions[2].title # PlaceholderTitle
    /\ Rows(2) # {}
    /\ Rows(1) = {}
    /\ \E i \in assigned : i \notin Ids(chat_messages)

====
